---- MODULE Spec2Model ----
(***************************************************************************)
(* Book_Review: the Postgres schema, row-level-security policies and       *)
(* triggers of the migration (README), and the page handlers that call the *)
(* data-access client (BookDetailsPage, BookFormPage).                     *)
(*                                                                         *)
(* The store is modelled as the three tables; every statement a client can *)
(* send is an operator that returns the error (if any) and the new tables. *)
(* Spec drives the store with arbitrary requests of arbitrary callers      *)
(* (the policies must hold against a client that bypasses the pages);      *)
(* SpecUI drives it through the pages' handlers, one step per await.       *)
(***************************************************************************)
EXTENDS Integers, Sequences, FiniteSets, Bags, TLC

VARIABLES
    users,       \* auth.users: the registered identities
    auth,        \* auth.users: id -> [email, name] the identity registered with
    profiles,    \* table profiles: id -> [name, email, created_at]
    books,       \* table books: id -> row
    reviews,     \* table reviews: id -> row
    now,         \* the server clock, now() (Tick advances it, in SpecTime)
    nextUser,    \* next identity the auth service hands out
    nextBook,    \* gen_random_uuid() for books: ids are never reused
    nextReview,  \* gen_random_uuid() for reviews
    last,        \* the last request the store answered (observer)
    sess         \* the browser sessions (SpecUI)

vars == <<users, auth, profiles, books, reviews, now, nextUser, nextBook, nextReview, last, sess>>

----------------------------------------------------------------------------
(* Bounds *)
MaxUsers == 2
MaxBooks == 2
MaxReviews == 2
MaxInflight == 1

Anon == 0               \* auth.uid() of a caller without a session (NULL)
Null == "null"          \* SQL NULL in a text column
UserIds == 1..MaxUsers
BookIds == 1..MaxBooks
ReviewIds == 1..MaxReviews

Emails == {"ada@x.com", "bob@x.com"}

\* what the book form can hold (formData)
BookForms ==
    { [title |-> "Dune", author |-> "Frank Herbert", description |-> "sand",
       genre |-> "SciFi", published_year |-> 1965],
      [title |-> "The Hobbit", author |-> "J.R.R. Tolkien", description |-> "ring",
       genre |-> "Fantasy", published_year |-> 1937] }

Stars == {1, 2, 3, 4, 5}
StarInputs == {s \in Stars : s = 1 \/ s = 5}   \* the stars clicked here
RawRatings == {0, 1, 5, 6}
Texts == {"good"}

----------------------------------------------------------------------------
(* Requests are column/value records; a patch names the columns it sets. *)

ApplyPatch(row, patch) ==
    [c \in DOMAIN row |-> IF c \in DOMAIN patch THEN patch[c] ELSE row[c]]

Remove(f, S) == [x \in (DOMAIN f) \ S |-> f[x]]

Put(f, k, v) == [x \in (DOMAIN f) \cup {k} |-> IF x = k THEN v ELSE f[x]]

----------------------------------------------------------------------------
(* Row-level-security policies and constraints of the migration *)

BooksInsertCheck(uid, new) == uid # Anon /\ uid = new.added_by

\* mutant: the USING clause lets every signed-in caller through
BooksUpdateUsing_AnyCaller(uid, old) == uid # Anon

BooksUpdateUsing(uid, old) == uid # Anon /\ uid = old.added_by

\* mutant: no WITH CHECK on the updated row
BooksUpdateCheck_None(uid, new) == TRUE

BooksUpdateCheck(uid, new) == uid # Anon /\ uid = new.added_by

BooksDeleteUsing(uid, old) == uid # Anon /\ uid = old.added_by

\* mutant: any signed-in caller may insert for any author
ReviewsInsertCheck_AnyAuthor(uid, new) == uid # Anon

ReviewsInsertCheck(uid, new) == uid # Anon /\ uid = new.user_id

ReviewsUpdateUsing(uid, old) == uid # Anon /\ uid = old.user_id

ReviewsUpdateCheck(uid, new) == uid # Anon /\ uid = new.user_id

\* mutant: any signed-in caller may delete any review
ReviewsDeleteUsing_AnyCaller(uid, old) == uid # Anon

ReviewsDeleteUsing(uid, old) == uid # Anon /\ uid = old.user_id

\* mutant: the lower bound is off by one
RatingCheck_FromZero(r) == r >= 0 /\ r <= 5

RatingCheck(r) == r >= 1 /\ r <= 5

\* mutant: the table has no UNIQUE(book_id, user_id)
ReviewsUnique_None(rows, id, new) == TRUE

\* UNIQUE(book_id, user_id), for the row `new` stored under `id`
ReviewsUnique(rows, id, new) ==
    \A r \in DOMAIN rows :
        r # id => ~(rows[r].book_id = new.book_id /\ rows[r].user_id = new.user_id)

BooksFK(new) == new.added_by \in DOMAIN profiles

ReviewsFK(bks, new) == new.book_id \in DOMAIN bks /\ new.user_id \in DOMAIN profiles

\* mutant: the trigger is missing
handle_updated_at_None(new) == new

\* BEFORE UPDATE trigger on books and reviews
handle_updated_at(new) == [new EXCEPT !.updated_at = now]

\* mutant: the foreign key does not cascade
CascadeReviews_None(rows, gone) == rows

\* books.id -> reviews.book_id ON DELETE CASCADE
CascadeReviews(rows, gone) ==
    Remove(rows, {r \in DOMAIN rows : rows[r].book_id \in gone})

----------------------------------------------------------------------------
(* The statements the data-access client sends, as the database runs them: *)
(* BEFORE triggers, then the policy's WITH CHECK, then the constraints.    *)
(* A row the USING clause filters out is not an error: the statement       *)
(* affects no row.  Each returns the error, the number of rows affected    *)
(* and the tables afterwards.                                              *)

Result(e, k, bks, rvs) == [err |-> e, n |-> k, books |-> bks, reviews |-> rvs]

Failed(e) == Result(e, 0, books, reviews)

BookDefaults ==
    [title |-> Null, author |-> Null, description |-> Null, genre |-> Null,
     published_year |-> 0, added_by |-> Anon, created_at |-> now, updated_at |-> now]

BookNotNull(new) ==
    /\ new.title # Null /\ new.author # Null /\ new.description # Null
    /\ new.genre # Null /\ new.added_by # Anon

\* supabase.from('books').insert(vals)
InsertBook(uid, vals) ==
    LET new == ApplyPatch(BookDefaults, vals) IN
    IF ~BooksInsertCheck(uid, new) THEN Failed("rls")
    ELSE IF ~BookNotNull(new) THEN Failed("not_null")
    ELSE IF ~BooksFK(new) THEN Failed("fk")
    ELSE Result("none", 1, Put(books, nextBook, new), reviews)

\* supabase.from('books').update(patch).eq('id', id)
UpdateBook(uid, id, patch) ==
    IF id \notin DOMAIN books \/ ~BooksUpdateUsing(uid, books[id]) THEN Failed("none")
    ELSE
        LET new == handle_updated_at(ApplyPatch(books[id], patch)) IN
        IF ~BooksUpdateCheck(uid, new) THEN Failed("rls")
        ELSE IF ~BookNotNull(new) THEN Failed("not_null")
        ELSE IF ~BooksFK(new) THEN Failed("fk")
        ELSE Result("none", 1, Put(books, id, new), reviews)

\* supabase.from('books').delete().eq('id', id)
DeleteBook(uid, id) ==
    IF id \notin DOMAIN books \/ ~BooksDeleteUsing(uid, books[id]) THEN Failed("none")
    ELSE Result("none", 1, Remove(books, {id}), CascadeReviews(reviews, {id}))

ReviewDefaults ==
    [book_id |-> 0, user_id |-> Anon, rating |-> 0, review_text |-> Null,
     created_at |-> now, updated_at |-> now]

ReviewNotNull(new) ==
    new.book_id # 0 /\ new.user_id # Anon /\ new.review_text # Null

\* mutant: the insert overwrites the caller's Review of the Book (an upsert)
InsertReview_Upsert(uid, vals) ==
    LET new == ApplyPatch(ReviewDefaults, vals)
        old == {r \in DOMAIN reviews :
                   reviews[r].book_id = new.book_id /\ reviews[r].user_id = new.user_id}
    IN
    IF ~ReviewsInsertCheck(uid, new) THEN Failed("rls")
    ELSE IF ~RatingCheck(new.rating) THEN Failed("check")
    ELSE IF ~ReviewsFK(books, new) THEN Failed("fk")
    ELSE Result("none", 1, books, Put(Remove(reviews, old), nextReview, new))

\* supabase.from('reviews').insert(vals)
InsertReview(uid, vals) ==
    LET new == ApplyPatch(ReviewDefaults, vals) IN
    IF ~ReviewsInsertCheck(uid, new) THEN Failed("rls")
    ELSE IF ~ReviewNotNull(new) THEN Failed("not_null")
    ELSE IF ~RatingCheck(new.rating) THEN Failed("check")
    ELSE IF ~ReviewsUnique(reviews, nextReview, new) THEN Failed("unique")
    ELSE IF ~ReviewsFK(books, new) THEN Failed("fk")
    ELSE Result("none", 1, books, Put(reviews, nextReview, new))

\* supabase.from('reviews').update(patch).eq('id', id)
UpdateReview(uid, id, patch) ==
    IF id \notin DOMAIN reviews \/ ~ReviewsUpdateUsing(uid, reviews[id]) THEN Failed("none")
    ELSE
        LET new == handle_updated_at(ApplyPatch(reviews[id], patch)) IN
        IF ~ReviewsUpdateCheck(uid, new) THEN Failed("rls")
        ELSE IF ~ReviewNotNull(new) THEN Failed("not_null")
        ELSE IF ~RatingCheck(new.rating) THEN Failed("check")
        ELSE IF ~ReviewsUnique(reviews, id, new) THEN Failed("unique")
        ELSE IF ~ReviewsFK(books, new) THEN Failed("fk")
        ELSE Result("none", 1, books, Put(reviews, id, new))

\* supabase.from('reviews').delete().eq('id', id)
DeleteReview(uid, id) ==
    IF id \notin DOMAIN reviews \/ ~ReviewsDeleteUsing(uid, reviews[id]) THEN Failed("none")
    ELSE Result("none", 1, books, Remove(reviews, {id}))

\* trigger on_auth_user_created: the profile row of a new identity
handle_new_user(id, name, email) ==
    [name |-> IF name = Null THEN "User" ELSE name, email |-> email, created_at |-> now]

\* auth.users: one identity per address
AuthEmailUnique(email) == \A u \in DOMAIN auth : auth[u].email # email

\* UNIQUE on profiles.email
EmailUnique(email) == \A p \in DOMAIN profiles : profiles[p].email # email

----------------------------------------------------------------------------
(* Callers: a registered identity holding a session, or nobody *)

Callers == users \cup {Anon}

NoRequest == [op |-> "none", uid |-> Anon, id |-> 0, err |-> "none", n |-> 0]

Request(o, uid, id, res) == [op |-> o, uid |-> uid, id |-> id, err |-> res.err, n |-> res.n]

\* what an arbitrary client may send
BookInserts == {f @@ [added_by |-> o] : f \in BookForms, o \in UserIds}

BookPatches == BookForms \cup {[added_by |-> o] : o \in UserIds}

ReviewInserts ==
    {[book_id |-> b, user_id |-> u, rating |-> r, review_text |-> t] :
        b \in BookIds, u \in UserIds, r \in RawRatings, t \in Texts}

ReviewPatches ==
    {[rating |-> r, review_text |-> t] : r \in RawRatings, t \in Texts}
    \cup {[user_id |-> u] : u \in UserIds}
    \cup {[book_id |-> b] : b \in BookIds}

Init ==
    /\ users = {}
    /\ auth = << >>
    /\ profiles = << >>
    /\ books = << >>
    /\ reviews = << >>
    /\ now = 0
    /\ nextUser = 1
    /\ nextBook = 1
    /\ nextReview = 1
    /\ last = NoRequest
    /\ sess = << >>

\* registration: the identity and its profile are created in one transaction
SignUp(name, email) ==
    /\ nextUser <= MaxUsers
    /\ IF AuthEmailUnique(email) /\ EmailUnique(email)
       THEN /\ users' = users \cup {nextUser}
            /\ auth' = Put(auth, nextUser, [email |-> email, name |-> name])
            /\ profiles' = Put(profiles, nextUser, handle_new_user(nextUser, name, email))
            /\ nextUser' = nextUser + 1
            /\ last' = [NoRequest EXCEPT !.op = "signUp", !.id = nextUser, !.n = 1]
       ELSE /\ UNCHANGED <<users, auth, profiles, nextUser>>
            /\ last' = [NoRequest EXCEPT !.op = "signUp", !.err = "unique"]
    /\ UNCHANGED <<books, reviews, now, nextBook, nextReview, sess>>

\* the two addresses are interchangeable: the first registrant takes the first
FirstIsAda(email) == users = {} => email = "ada@x.com"

Commit(res) ==
    /\ books' = res.books
    /\ reviews' = res.reviews
    /\ UNCHANGED <<users, auth, profiles, now, nextUser>>

ApiInsertBook(uid, vals) ==
    LET res == InsertBook(uid, vals) IN
    /\ res.err = "none" => nextBook <= MaxBooks
    /\ Commit(res)
    /\ nextBook' = IF res.err = "none" THEN nextBook + 1 ELSE nextBook
    /\ last' = Request("insertBook", uid, nextBook, res)
    /\ UNCHANGED <<nextReview, sess>>

ApiUpdateBook(uid, id, patch) ==
    LET res == UpdateBook(uid, id, patch) IN
    /\ Commit(res)
    /\ last' = Request("updateBook", uid, id, res)
    /\ UNCHANGED <<nextBook, nextReview, sess>>

ApiDeleteBook(uid, id) ==
    LET res == DeleteBook(uid, id) IN
    /\ Commit(res)
    /\ last' = Request("deleteBook", uid, id, res)
    /\ UNCHANGED <<nextBook, nextReview, sess>>

ApiInsertReview(uid, vals) ==
    LET res == InsertReview(uid, vals) IN
    /\ res.err = "none" => nextReview <= MaxReviews
    /\ Commit(res)
    /\ nextReview' = IF res.err = "none" THEN nextReview + 1 ELSE nextReview
    /\ last' = Request("insertReview", uid, nextReview, res)
    /\ UNCHANGED <<nextBook, sess>>

ApiUpdateReview(uid, id, patch) ==
    LET res == UpdateReview(uid, id, patch) IN
    /\ Commit(res)
    /\ last' = Request("updateReview", uid, id, res)
    /\ UNCHANGED <<nextBook, nextReview, sess>>

ApiDeleteReview(uid, id) ==
    LET res == DeleteReview(uid, id) IN
    /\ Commit(res)
    /\ last' = Request("deleteReview", uid, id, res)
    /\ UNCHANGED <<nextBook, nextReview, sess>>

Next ==
    \/ \E email \in Emails : FirstIsAda(email) /\ SignUp(Null, email)
    \/ \E uid \in Callers, vals \in BookInserts : ApiInsertBook(uid, vals)
    \/ \E uid \in Callers, id \in BookIds, patch \in BookPatches : ApiUpdateBook(uid, id, patch)
    \/ \E uid \in Callers, id \in BookIds : ApiDeleteBook(uid, id)
    \/ \E uid \in Callers, vals \in ReviewInserts : ApiInsertReview(uid, vals)
    \/ \E uid \in Callers, id \in ReviewIds, patch \in ReviewPatches : ApiUpdateReview(uid, id, patch)
    \/ \E uid \in Callers, id \in ReviewIds : ApiDeleteReview(uid, id)

Spec == Init /\ [][Next]_vars

----------------------------------------------------------------------------
(* The pages.  A tab is one browser tab running the app with the session of *)
(* one caller; it shows BookDetailsPage ("details") or BookFormPage         *)
(* ("form"), or has left for the listing ("list") or the login page.        *)
(* A handler runs up to its await in one step; the request is then in       *)
(* flight, and the step that answers it runs the statement on the store and *)
(* the rest of the handler.                                                 *)

Tabs == {"t1", "t2"}

NoBook == [id |-> 0]        \* book === null
NoReq == [kind |-> "none"]
EmptyForm ==
    [title |-> "", author |-> "", description |-> "", genre |-> "", published_year |-> 0]

FormCols == {"title", "author", "description", "genre", "published_year"}

Closed ==
    [page |-> "none", user |-> Anon, id |-> 0,
     book |-> NoBook, reviews |-> << >>, loading |-> FALSE,
     rating |-> 5, reviewText |-> "", submitting |-> FALSE, editingReview |-> 0,
     error |-> "", formData |-> EmptyForm,
     pBook |-> FALSE, pReviews |-> 0, pSubmit |-> NoReq, pDelete |-> {},
     pDeleteBook |-> FALSE, pForm |-> NoReq,
     done |-> [op |-> "none", id |-> 0, err |-> "none", n |-> 0]]

\* useState initial values of BookDetailsPage and its useEffect([id])
MountDetails(tab, id) ==
    [tab EXCEPT !.page = "details", !.id = id,
                !.book = NoBook, !.reviews = << >>, !.loading = TRUE,
                !.rating = 5, !.reviewText = "", !.submitting = FALSE,
                !.editingReview = 0, !.error = "",
                !.pBook = (id # 0), !.pReviews = IF id # 0 THEN 1 ELSE 0]

\* useState initial values of BookFormPage and its useEffect([id])
MountForm(tab, id) ==
    [tab EXCEPT !.page = "form", !.id = id, !.loading = FALSE, !.error = "",
                !.formData = EmptyForm, !.pBook = (id # 0)]

\* the rows of a table as the client receives them, each with its id
Row(rows, id) == rows[id] @@ [id |-> id]

\* .eq('book_id', id).order('created_at', { ascending: false }): every order
\* of the matching rows that is descending in created_at
ReviewsOf(id) ==
    LET ids == {r \in DOMAIN reviews : reviews[r].book_id = id}
        n == Cardinality(ids)
    IN  {sq \in [1..n -> {Row(reviews, r) : r \in ids}] :
            /\ \A i, j \in 1..n : i # j => sq[i].id # sq[j].id
            /\ \A i, j \in 1..n : i < j => sq[i].created_at >= sq[j].created_at}

\* reviews.find((r) => r.user_id === user?.id)
HasUserReview(tab) ==
    \E i \in 1..Len(tab.reviews) : tab.reviews[i].user_id = tab.user

\* the page is past `if (loading)` and `if (!book)`
Rendered(tab) == tab.page = "details" /\ ~tab.loading /\ tab.book # NoBook

\* {user && !userReview && (<form>)}
FormShown(tab) == Rendered(tab) /\ tab.user # Anon /\ ~HasUserReview(tab)

\* error.message || fallback
Message(err, fallback) == IF err = "" THEN fallback ELSE err

\* the store the pages start from: two registered users, a Book of user 1 and,
\* possibly, user 2's Review of it (states Spec reaches)
SeedReviews ==
    { << >>,
      <<ApplyPatch(ReviewDefaults,
                  [book_id |-> 1, user_id |-> 2, rating |-> 1, review_text |-> "good"])>> }

InitUI ==
    /\ now = 0
    /\ users = {1, 2}
    /\ auth = <<[email |-> "ada@x.com", name |-> Null], [email |-> "bob@x.com", name |-> Null]>>
    /\ profiles = <<handle_new_user(1, Null, "ada@x.com"), handle_new_user(2, Null, "bob@x.com")>>
    /\ books = <<ApplyPatch(BookDefaults,
                   [title |-> "Dune", author |-> "Frank Herbert", description |-> "sand",
                    genre |-> "SciFi", published_year |-> 1965, added_by |-> 1])>>
    /\ reviews \in SeedReviews
    /\ nextUser = 3
    /\ nextBook = 2
    /\ nextReview = Cardinality(DOMAIN reviews) + 1
    /\ last = NoRequest
    /\ sess = [t \in Tabs |-> Closed]

Server == <<users, auth, profiles, now, nextUser, last>>

Tab(t, new) == sess' = [sess EXCEPT ![t] = new]

Answered(o, id, res) == [op |-> o, id |-> id, err |-> res.err, n |-> res.n]

\* route /books/:id
OpenDetails(t, u, id) ==
    /\ sess[t].page = "none"
    /\ Tab(t, MountDetails([sess[t] EXCEPT !.user = u], id))
    /\ UNCHANGED <<books, reviews, nextBook, nextReview, Server>>

\* mutant: setLoading(false) only when a row came back
FetchBookDetailsDone_NoFinally(t) ==
    LET tab == sess[t] IN
    /\ tab.page = "details" /\ tab.pBook
    /\ Tab(t, [tab EXCEPT !.pBook = FALSE,
                          !.book = IF tab.id \in DOMAIN books THEN Row(books, tab.id) ELSE NoBook,
                          !.loading = tab.id \notin DOMAIN books])
    /\ UNCHANGED <<books, reviews, nextBook, nextReview, Server>>

\* fetchBookDetails, answered
FetchBookDetailsDone(t) ==
    LET tab == sess[t] IN
    /\ tab.page = "details" /\ tab.pBook
    /\ Tab(t, [tab EXCEPT !.pBook = FALSE,
                          !.book = IF tab.id \in DOMAIN books THEN Row(books, tab.id) ELSE NoBook,
                          !.loading = FALSE])
    /\ UNCHANGED <<books, reviews, nextBook, nextReview, Server>>

\* fetchReviews, answered
FetchReviewsDone(t) ==
    LET tab == sess[t] IN
    /\ tab.pReviews > 0
    /\ \E sq \in ReviewsOf(tab.id) :
          Tab(t, [tab EXCEPT !.pReviews = @ - 1,
                             !.reviews = IF tab.page = "details" THEN sq ELSE @])
    /\ UNCHANGED <<books, reviews, nextBook, nextReview, Server>>

\* fetchReviews(): one more request in flight
MoreReviews(k) == IF k < MaxInflight THEN k + 1 ELSE MaxInflight

\* the star buttons
SetRating(t, star) ==
    LET tab == sess[t] IN
    /\ FormShown(tab)
    /\ Tab(t, [tab EXCEPT !.rating = star])
    /\ UNCHANGED <<books, reviews, nextBook, nextReview, Server>>

\* the textarea
SetReviewText(t, text) ==
    LET tab == sess[t] IN
    /\ FormShown(tab)
    /\ Tab(t, [tab EXCEPT !.reviewText = text])
    /\ UNCHANGED <<books, reviews, nextBook, nextReview, Server>>

\* mutant: the submit button is not disabled while submitting
SubmitReview_Enabled(t) ==
    LET tab == sess[t] IN
    /\ FormShown(tab)
    /\ tab.reviewText # ""
    /\ tab.user # Anon
    /\ Tab(t, [tab EXCEPT !.submitting = TRUE, !.error = "",
                          !.pSubmit = [kind |-> "submitReview",
                                       editing |-> tab.editingReview,
                                       rating |-> tab.rating,
                                       text |-> tab.reviewText]])
    /\ UNCHANGED <<books, reviews, nextBook, nextReview, Server>>

\* handleSubmitReview up to the await
SubmitReview(t) ==
    LET tab == sess[t] IN
    /\ FormShown(tab)
    /\ ~tab.submitting
    /\ tab.reviewText # ""
    /\ IF tab.user = Anon
       THEN Tab(t, [tab EXCEPT !.page = "login"])
       ELSE Tab(t, [tab EXCEPT !.submitting = TRUE, !.error = "",
                               !.pSubmit = [kind |-> "submitReview",
                                            editing |-> tab.editingReview,
                                            rating |-> tab.rating,
                                            text |-> tab.reviewText]])
    /\ UNCHANGED <<books, reviews, nextBook, nextReview, Server>>

\* handleSubmitReview from the answer on
SubmitReviewDone(t) ==
    LET tab == sess[t]
        req == tab.pSubmit
        res == IF req.editing # 0
               THEN UpdateReview(tab.user, req.editing,
                                 [rating |-> req.rating, review_text |-> req.text])
               ELSE InsertReview(tab.user,
                                 [book_id |-> tab.id, user_id |-> tab.user,
                                  rating |-> req.rating, review_text |-> req.text])
        created == req.editing = 0 /\ res.err = "none"
        seen == [tab EXCEPT !.pSubmit = NoReq,
                            !.done = Answered(IF req.editing # 0 THEN "updateReview"
                                              ELSE "insertReview", req.editing, res)]
    IN
    /\ req # NoReq
    /\ created => nextReview <= MaxReviews
    /\ books' = res.books
    /\ reviews' = res.reviews
    /\ nextReview' = IF created THEN nextReview + 1 ELSE nextReview
    /\ IF tab.page # "details" THEN Tab(t, seen)
       ELSE IF res.err = "none"
       THEN Tab(t, [seen EXCEPT !.rating = 5, !.reviewText = "", !.editingReview = 0,
                                !.pReviews = MoreReviews(@), !.submitting = FALSE])
       ELSE Tab(t, [seen EXCEPT !.error = Message(res.err, "Failed to submit review"),
                                !.submitting = FALSE])
    /\ UNCHANGED <<nextBook, Server>>

\* handleEditReview, offered on the user's own reviews
EditReview(t, i) ==
    LET tab == sess[t] IN
    /\ Rendered(tab)
    /\ i \in 1..Len(tab.reviews)
    /\ tab.user # Anon /\ tab.reviews[i].user_id = tab.user
    /\ Tab(t, [tab EXCEPT !.editingReview = tab.reviews[i].id,
                          !.rating = tab.reviews[i].rating,
                          !.reviewText = tab.reviews[i].review_text])
    /\ UNCHANGED <<books, reviews, nextBook, nextReview, Server>>

\* the Cancel button of the form in edit mode
CancelEdit(t) ==
    LET tab == sess[t] IN
    /\ FormShown(tab)
    /\ tab.editingReview # 0
    /\ Tab(t, [tab EXCEPT !.editingReview = 0, !.rating = 5, !.reviewText = ""])
    /\ UNCHANGED <<books, reviews, nextBook, nextReview, Server>>

\* handleDeleteReview up to the await (the user confirms)
DeleteReviewClick(t, i) ==
    LET tab == sess[t] IN
    /\ Rendered(tab)
    /\ i \in 1..Len(tab.reviews)
    /\ tab.user # Anon /\ tab.reviews[i].user_id = tab.user
    /\ Tab(t, [tab EXCEPT !.pDelete = @ \cup {tab.reviews[i].id}])
    /\ UNCHANGED <<books, reviews, nextBook, nextReview, Server>>

\* handleDeleteReview from the answer on
DeleteReviewDone(t, rid) ==
    LET tab == sess[t]
        res == DeleteReview(tab.user, rid)
        seen == [tab EXCEPT !.pDelete = @ \ {rid},
                            !.done = Answered("deleteReview", rid, res)]
    IN
    /\ rid \in tab.pDelete
    /\ books' = res.books
    /\ reviews' = res.reviews
    /\ IF tab.page = "details" /\ res.err = "none"
       THEN Tab(t, [seen EXCEPT !.pReviews = MoreReviews(@)])
       ELSE Tab(t, seen)
    /\ UNCHANGED <<nextBook, nextReview, Server>>

\* handleDeleteBook up to the await, offered to the owner (the user confirms)
DeleteBookClick(t) ==
    LET tab == sess[t] IN
    /\ Rendered(tab)
    /\ tab.user # Anon /\ tab.book.added_by = tab.user
    /\ ~tab.pDeleteBook
    /\ Tab(t, [tab EXCEPT !.pDeleteBook = TRUE])
    /\ UNCHANGED <<books, reviews, nextBook, nextReview, Server>>

\* handleDeleteBook from the answer on
DeleteBookDone(t) ==
    LET tab == sess[t]
        res == DeleteBook(tab.user, tab.id)
        seen == [tab EXCEPT !.pDeleteBook = FALSE,
                            !.done = Answered("deleteBook", tab.id, res)]
    IN
    /\ tab.pDeleteBook
    /\ books' = res.books
    /\ reviews' = res.reviews
    /\ IF res.err = "none" THEN Tab(t, [seen EXCEPT !.page = "list"]) ELSE Tab(t, seen)
    /\ UNCHANGED <<nextBook, nextReview, Server>>

\* routes /books/new (id = 0) and /books/:id/edit, behind ProtectedRoute
OpenForm(t, u, id) ==
    /\ sess[t].page = "none"
    /\ u # Anon
    /\ Tab(t, MountForm([sess[t] EXCEPT !.user = u], id))
    /\ UNCHANGED <<books, reviews, nextBook, nextReview, Server>>

\* fetchBook, answered
FetchBookDone(t) ==
    LET tab == sess[t] IN
    /\ tab.page = "form" /\ tab.pBook
    /\ IF tab.id \notin DOMAIN books
       THEN Tab(t, [tab EXCEPT !.pBook = FALSE])
       ELSE IF books[tab.id].added_by # tab.user
       THEN Tab(t, [tab EXCEPT !.pBook = FALSE, !.page = "list"])
       ELSE Tab(t, [tab EXCEPT !.pBook = FALSE,
                               !.formData = [c \in FormCols |-> books[tab.id][c]]])
    /\ UNCHANGED <<books, reviews, nextBook, nextReview, Server>>

\* handleChange on every field: the form holds f
FillForm(t, f) ==
    LET tab == sess[t] IN
    /\ tab.page = "form"
    /\ Tab(t, [tab EXCEPT !.formData = f])
    /\ UNCHANGED <<books, reviews, nextBook, nextReview, Server>>

\* handleSubmit up to the await
SubmitBook(t) ==
    LET tab == sess[t] IN
    /\ tab.page = "form"
    /\ ~tab.loading
    /\ tab.formData # EmptyForm
    /\ Tab(t, [tab EXCEPT !.error = "", !.loading = TRUE,
                          !.pForm = [kind |-> "submitBook", data |-> tab.formData]])
    /\ UNCHANGED <<books, reviews, nextBook, nextReview, Server>>

\* handleSubmit from the answer on
SubmitBookDone(t) ==
    LET tab == sess[t]
        req == tab.pForm
        isEdit == tab.id # 0
        res == IF isEdit
               THEN UpdateBook(tab.user, tab.id, req.data)
               ELSE InsertBook(tab.user, req.data @@ [added_by |-> tab.user])
        created == ~isEdit /\ res.err = "none"
        to == IF isEdit THEN tab.id ELSE nextBook
        seen == [tab EXCEPT !.pForm = NoReq,
                            !.done = Answered(IF isEdit THEN "updateBook" ELSE "insertBook",
                                              tab.id, res)]
    IN
    /\ req # NoReq
    /\ created => nextBook <= MaxBooks
    /\ books' = res.books
    /\ reviews' = res.reviews
    /\ nextBook' = IF created THEN nextBook + 1 ELSE nextBook
    /\ IF res.err = "none" THEN Tab(t, MountDetails(seen, to))
       ELSE IF tab.page = "form"
       THEN Tab(t, [seen EXCEPT !.error = Message(res.err, "Failed to save book"), !.loading = FALSE])
       ELSE Tab(t, seen)
    /\ UNCHANGED <<nextReview, Server>>

\* what can happen in a tab showing BookDetailsPage
DetailsStep(t) ==
    \/ \E u \in Callers, id \in BookIds : OpenDetails(t, u, id)
    \/ FetchBookDetailsDone(t)
    \/ FetchReviewsDone(t)
    \/ \E star \in StarInputs : SetRating(t, star)
    \/ \E text \in Texts : SetReviewText(t, text)
    \/ SubmitReview(t)
    \/ SubmitReviewDone(t)
    \/ \E i \in 1..MaxReviews : EditReview(t, i)
    \/ CancelEdit(t)
    \/ \E i \in 1..MaxReviews : DeleteReviewClick(t, i)
    \/ \E rid \in ReviewIds : DeleteReviewDone(t, rid)
    \/ DeleteBookClick(t)
    \/ DeleteBookDone(t)

\* what can happen in a tab showing BookFormPage
FormStep(t) ==
    \/ \E u \in Callers, id \in BookIds \cup {0} : OpenForm(t, u, id)
    \/ FetchBookDone(t)
    \/ \E f \in BookForms : FillForm(t, f)
    \/ SubmitBook(t)
    \/ SubmitBookDone(t)

\* one tab, both pages
NextUI == DetailsStep("t1") \/ FormStep("t1")

SpecUI == InitUI /\ [][NextUI]_vars

\* two tabs on BookDetailsPage, writing reviews
RaceStep(t) ==
    \/ \E u \in Callers, id \in BookIds : OpenDetails(t, u, id)
    \/ FetchBookDetailsDone(t)
    \/ FetchReviewsDone(t)
    \/ \E star \in StarInputs : SetRating(t, star)
    \/ \E text \in Texts : SetReviewText(t, text)
    \/ SubmitReview(t)
    \/ SubmitReviewDone(t)

NextRace == \E t \in Tabs : RaceStep(t)

SpecRace == InitUI /\ [][NextRace]_vars

----------------------------------------------------------------------------
(* Table profiles: the policies give SELECT to everybody and UPDATE to the  *)
(* owner of the row; there is no INSERT and no DELETE policy, so row-level  *)
(* security refuses every client insert and hides every row from a delete.  *)

ProfilesUpdateUsing(uid, old) == uid # Anon /\ uid = old.id

\* mutant: WITH CHECK only asks for a signed-in caller
ProfilesUpdateCheck_SignedIn(uid, new) == uid # Anon

ProfilesUpdateCheck(uid, new) == uid # Anon /\ uid = new.id

\* no policy FOR INSERT
ProfilesInsertCheck(uid, new) == FALSE

\* mutant: a policy lets a signed-in caller delete the own row
ProfilesDeleteUsing_Own(uid, old) == uid # Anon /\ uid = old.id

\* no policy FOR DELETE
ProfilesDeleteUsing(uid, old) == FALSE

ProfileNotNull(new) == new.name # Null /\ new.email # Null

\* UNIQUE on profiles.email, for the row `new` stored under `id`
ProfileEmailUnique(id, new) ==
    \A p \in DOMAIN profiles : p # id => profiles[p].email # new.email

PResult(e, k, pfs) == [err |-> e, n |-> k, profiles |-> pfs]

\* the columns of a stored row, without the key
ProfileCols(row) == [c \in {"name", "email", "created_at"} |-> row[c]]

\* supabase.from('profiles').update(patch).eq('id', id)
UpdateProfile(uid, id, patch) ==
    IF id \notin DOMAIN profiles \/ ~ProfilesUpdateUsing(uid, Row(profiles, id))
    THEN PResult("none", 0, profiles)
    ELSE
        LET new == ApplyPatch(Row(profiles, id), patch) IN
        IF ~ProfilesUpdateCheck(uid, new) THEN PResult("rls", 0, profiles)
        ELSE IF ~ProfileNotNull(new) THEN PResult("not_null", 0, profiles)
        ELSE IF ~ProfileEmailUnique(id, new) THEN PResult("unique", 0, profiles)
        ELSE PResult("none", 1, Put(profiles, id, ProfileCols(new)))

\* supabase.from('profiles').insert(vals)
InsertProfile(uid, vals) ==
    LET new == ApplyPatch([id |-> 0, name |-> Null, email |-> Null, created_at |-> now], vals) IN
    IF ~ProfilesInsertCheck(uid, new) THEN PResult("rls", 0, profiles)
    ELSE IF ~ProfileNotNull(new) THEN PResult("not_null", 0, profiles)
    ELSE IF new.id \in DOMAIN profiles \/ ~ProfileEmailUnique(new.id, new)
         THEN PResult("unique", 0, profiles)
    ELSE IF new.id \notin users THEN PResult("fk", 0, profiles)
    ELSE PResult("none", 1, Put(profiles, new.id, ProfileCols(new)))

\* supabase.from('profiles').delete().eq('id', id); books and reviews of the
\* profile would go with it (ON DELETE CASCADE)
DeleteProfile(uid, id) ==
    IF id \notin DOMAIN profiles \/ ~ProfilesDeleteUsing(uid, Row(profiles, id))
    THEN PResult("none", 0, profiles)
    ELSE PResult("none", 1, Remove(profiles, {id}))

RegisteredNames == {Null, "Ada"}
ProfileEmails == Emails \cup {"eve@x.com"}

ProfilePatches ==
    {[name |-> "Zed"], [name |-> Null], [created_at |-> 7]}
    \cup {[email |-> e] : e \in ProfileEmails}
    \cup {[id |-> u] : u \in UserIds}

ProfileInserts ==
    {[id |-> u, name |-> "Zed", email |-> e] : u \in UserIds, e \in ProfileEmails}

CommitProfiles(res) ==
    /\ profiles' = res.profiles
    /\ UNCHANGED <<users, auth, books, reviews, now, nextUser, nextBook, nextReview, sess>>

ApiUpdateProfile(uid, id, patch) ==
    LET res == UpdateProfile(uid, id, patch) IN
    /\ CommitProfiles(res)
    /\ last' = Request("updateProfile", uid, id, res)

ApiInsertProfile(uid, vals) ==
    LET res == InsertProfile(uid, vals) IN
    /\ CommitProfiles(res)
    /\ last' = Request("insertProfile", uid, vals.id, res)

ApiDeleteProfile(uid, id) ==
    LET res == DeleteProfile(uid, id) IN
    /\ res.n = 1 => (\A b \in DOMAIN books : books[b].added_by # id)
                    /\ (\A r \in DOMAIN reviews : reviews[r].user_id # id)
    /\ CommitProfiles(res)
    /\ last' = Request("deleteProfile", uid, id, res)

NextProfiles ==
    \/ \E name \in RegisteredNames, email \in Emails : SignUp(name, email)
    \/ \E uid \in Callers, id \in UserIds, patch \in ProfilePatches :
          ApiUpdateProfile(uid, id, patch)
    \/ \E uid \in Callers, vals \in ProfileInserts : ApiInsertProfile(uid, vals)
    \/ \E uid \in Callers, id \in UserIds : ApiDeleteProfile(uid, id)

\* registrations and arbitrary requests on table profiles
SpecProfiles == Init /\ [][NextProfiles]_vars

----------------------------------------------------------------------------
(* What BookDetailsPage derives from its state on every render *)

\* reviews.reduce((sum, r) => sum + r.rating, 0)
RECURSIVE SumRatings(_)
SumRatings(rs) ==
    IF rs = << >> THEN 0 ELSE SumRatings(SubSeq(rs, 1, Len(rs) - 1)) + rs[Len(rs)].rating

\* mutant: the quotient is truncated to an integer
averageRating_Floor(tab) ==
    IF Len(tab.reviews) > 0
    THEN [num |-> SumRatings(tab.reviews) \div Len(tab.reviews), den |-> 1]
    ELSE [num |-> 0, den |-> 1]

\* averageRating, a quotient num / den
averageRating(tab) ==
    IF Len(tab.reviews) > 0
    THEN [num |-> SumRatings(tab.reviews), den |-> Len(tab.reviews)]
    ELSE [num |-> 0, den |-> 1]

\* averageRating.toFixed(1), in tenths: the nearest tenth, the larger of two
toFixed1(q) == (20 * q.num + q.den) \div (2 * q.den)

\* the stars filled: i < Math.round(averageRating)
FilledStars(q) == (2 * q.num + q.den) \div (2 * q.den)

\* what the page renders
View(tab) ==
    IF tab.loading THEN "spinner"
    ELSE IF tab.book = NoBook THEN "Book not found"
    ELSE "book"

\* the store the details page reads here: a Book of user 1 with up to
\* MaxShown Reviews, one per user, of any rating, written at time 0 or 1
MaxShown == 3
Readers == 1..MaxShown
ReaderEmail(u) == "reader" \o ToString(u) \o "@x.com"

InitRead ==
    /\ now = 1
    /\ users = Readers
    /\ auth = [u \in Readers |-> [email |-> ReaderEmail(u), name |-> Null]]
    /\ profiles = [u \in Readers |->
                      [name |-> "User", email |-> ReaderEmail(u), created_at |-> 0]]
    /\ books = <<[title |-> "Dune", author |-> "Frank Herbert", description |-> "sand",
                  genre |-> "SciFi", published_year |-> 1965, added_by |-> 1,
                  created_at |-> 0, updated_at |-> 0]>>
    /\ \E n \in 0..MaxShown :
          \E rt \in [1..n -> Stars], at \in [1..n -> {0, 1}] :
              reviews = [r \in 1..n |->
                            [book_id |-> 1, user_id |-> r, rating |-> rt[r],
                             review_text |-> "good",
                             created_at |-> at[r], updated_at |-> at[r]]]
    /\ nextUser = MaxShown + 1
    /\ nextBook = 2
    /\ nextReview = Cardinality(DOMAIN reviews) + 1
    /\ last = NoRequest
    /\ sess = [t \in Tabs |-> Closed]

NextRead ==
    \/ \E u \in Callers, id \in BookIds : OpenDetails("t1", u, id)
    \/ FetchBookDetailsDone("t1")
    \/ FetchReviewsDone("t1")

\* a visitor opens the details page of a Book that exists or of one that does not
SpecRead == InitRead /\ [][NextRead]_vars

----------------------------------------------------------------------------
(* BooksPage: the listing.  fetchBooks sends one request built from the     *)
(* page's state (search text, genre, sort key, page number) and runs again *)
(* whenever one of them changes.                                            *)

BOOKS_PER_PAGE == 5

\* text as the characters it is made of
Chars ==
    [x \in {"", "tolk", "DUNE", "_", "Dune", "Frank Herbert", "The Hobbit",
            "J.R.R. Tolkien", "Emma", "Jane Austen"} |->
        CASE x = "" -> << >>
          [] x = "tolk" -> <<"t", "o", "l", "k">>
          [] x = "DUNE" -> <<"D", "U", "N", "E">>
          [] x = "_" -> <<"_">>
          [] x = "Dune" -> <<"D", "u", "n", "e">>
          [] x = "Frank Herbert" ->
                <<"F", "r", "a", "n", "k", " ", "H", "e", "r", "b", "e", "r", "t">>
          [] x = "The Hobbit" -> <<"T", "h", "e", " ", "H", "o", "b", "b", "i", "t">>
          [] x = "J.R.R. Tolkien" ->
                <<"J", ".", "R", ".", "R", ".", " ", "T", "o", "l", "k", "i", "e", "n">>
          [] x = "Emma" -> <<"E", "m", "m", "a">>
          [] x = "Jane Austen" -> <<"J", "a", "n", "e", " ", "A", "u", "s", "t", "e", "n">>]

UpperCase ==
    <<"A", "B", "C", "D", "E", "F", "G", "H", "I", "J", "K", "L", "M",
      "N", "O", "P", "Q", "R", "S", "T", "U", "V", "W", "X", "Y", "Z">>
LowerCase ==
    <<"a", "b", "c", "d", "e", "f", "g", "h", "i", "j", "k", "l", "m",
      "n", "o", "p", "q", "r", "s", "t", "u", "v", "w", "x", "y", "z">>

\* letter case as ILIKE folds it
Lower(c) ==
    IF \E i \in 1..26 : UpperCase[i] = c
    THEN LowerCase[CHOOSE i \in 1..26 : UpperCase[i] = c]
    ELSE c

\* the pattern of title.ilike.%q% : the text is put between two wildcards as
\* it is, and the API reads * as %
Pattern(q) ==
    <<"%">> \o [i \in 1..Len(q) |-> IF q[i] = "*" THEN "%" ELSE q[i]] \o <<"%">>

\* str ILIKE pat: % stands for any run of characters, _ for any one character
RECURSIVE ILike(_, _)
ILike(str, pat) ==
    IF pat = << >> THEN str = << >>
    ELSE IF Head(pat) = "%"
         THEN ILike(str, Tail(pat)) \/ (str # << >> /\ ILike(Tail(str), pat))
    ELSE /\ str # << >>
         /\ Head(pat) = "_" \/ Lower(Head(str)) = Lower(Head(pat))
         /\ ILike(Tail(str), Tail(pat))

\* the filters of fetchBooks
Matches(row, q, genre) ==
    /\ q # "" => \/ ILike(Chars[row.title], Pattern(Chars[q]))
                 \/ ILike(Chars[row.author], Pattern(Chars[q]))
    /\ genre # "" => row.genre = genre

Matching(q, genre) == {b \in DOMAIN books : Matches(books[b], q, genre)}

\* ORDER BY of fetchBooks: b may come before c
Before(b, c, sortBy) ==
    CASE sortBy = "newest" -> books[b].created_at >= books[c].created_at
      [] sortBy = "oldest" -> books[b].created_at <= books[c].created_at
      [] sortBy = "year" -> books[b].published_year >= books[c].published_year

\* every order of the rows S that ORDER BY allows: rows with equal keys come
\* in any order, and not in the same order from one request to the next
RECURSIVE Orders(_, _)
Orders(S, sortBy) ==
    IF S = {} THEN {<< >>}
    ELSE UNION {{<<b>> \o o : o \in Orders(S \ {b}, sortBy)} :
                   b \in {x \in S : \A y \in S : Before(x, y, sortBy)}}

\* .range(from, to) with { count: 'exact' }: the rows at offsets from..to of
\* the ordered result and the number of all matching rows; an offset beyond
\* that number is answered 416 'Requested range not satisfiable'
Range(order, from, to) ==
    LET n == Len(order) IN
    IF from > n THEN [err |-> "range", data |-> << >>, count |-> 0]
    ELSE [err |-> "none",
          data |-> SubSeq(order, from + 1, IF to + 1 < n THEN to + 1 ELSE n),
          count |-> n]

\* the answers the store can give to a fetchBooks request
ListAnswers(req) ==
    LET from == (req.currentPage - 1) * BOOKS_PER_PAGE
        to == from + BOOKS_PER_PAGE - 1
    IN  {Range(o, from, to) : o \in Orders(Matching(req.searchQuery, req.selectedGenre),
                                          req.sortBy)}

SearchTexts == {"", "tolk", "DUNE", "_"}
SortKeys == {"newest", "oldest", "year"}

\* the Books of the listing's store: three works in turn; the Books 7 and 8
\* have the same year of publication.  The largest store has three Books
\* more than CatalogueSize, so that one work has exactly a page of Books.
CatalogueSize == 12

Works ==
    <<[title |-> "Dune", author |-> "Frank Herbert", genre |-> "SciFi"],
      [title |-> "The Hobbit", author |-> "J.R.R. Tolkien", genre |-> "Fantasy"],
      [title |-> "Emma", author |-> "Jane Austen", genre |-> "Classic"]>>

Catalogue ==
    [i \in 1..(CatalogueSize + 3) |->
        LET w == Works[(i % 3) + 1] IN
        [title |-> w.title, author |-> w.author, description |-> "text",
         genre |-> w.genre, published_year |-> IF i = 8 THEN 1907 ELSE 1900 + i,
         added_by |-> 1, created_at |-> i, updated_at |-> i]]

InitList ==
    /\ now = CatalogueSize + 4
    /\ users = {1, 2}
    /\ auth = <<[email |-> "ada@x.com", name |-> Null], [email |-> "bob@x.com", name |-> Null]>>
    /\ profiles = <<[name |-> "User", email |-> "ada@x.com", created_at |-> 0],
                    [name |-> "User", email |-> "bob@x.com", created_at |-> 0]>>
    /\ \E n \in {0, 2, BOOKS_PER_PAGE, CatalogueSize, CatalogueSize + 3} :
          books = [i \in 1..n |-> Catalogue[i]]
    /\ reviews = << >>
    /\ nextUser = 3
    /\ nextBook = Cardinality(DOMAIN books) + 1
    /\ nextReview = 1
    /\ last = NoRequest
    /\ sess = [t \in Tabs |-> Closed]

\* the request fetchBooks builds from the state
ListRequest(tab) ==
    [currentPage |-> tab.currentPage, searchQuery |-> tab.searchQuery,
     selectedGenre |-> tab.selectedGenre, sortBy |-> tab.sortBy]

NoAnswer ==
    [currentPage |-> 0, searchQuery |-> "", selectedGenre |-> "", sortBy |-> "newest",
     err |-> "none", matching |-> 0]

\* useState initial values of BooksPage and its two effects
MountList(u) ==
    LET tab == [page |-> "books", user |-> u, books |-> << >>, loading |-> TRUE,
                currentPage |-> 1, totalBooks |-> 0, searchQuery |-> "",
                selectedGenre |-> "", sortBy |-> "newest", genres |-> EmptyBag,
                pGenres |-> TRUE, pList |-> << >>, answered |-> NoAnswer]
    IN  [tab EXCEPT !.pList = <<ListRequest(tab)>>]

\* Math.ceil(totalBooks / BOOKS_PER_PAGE)
totalPages(tab) == (tab.totalBooks + BOOKS_PER_PAGE - 1) \div BOOKS_PER_PAGE

\* the pagination buttons are rendered
PagerShown(tab) ==
    tab.page = "books" /\ ~tab.loading /\ Len(tab.books) # 0 /\ totalPages(tab) > 1

\* a state change: the effect runs fetchBooks when a dependency changed
Changed(tab, new) ==
    IF ListRequest(new) = ListRequest(tab) THEN new
    ELSE [new EXCEPT !.loading = TRUE, !.pList = Append(@, ListRequest(new))]

ListUnchanged == UNCHANGED <<books, reviews, nextBook, nextReview, Server>>

\* route /
OpenList(t, u) ==
    /\ sess[t].page = "none"
    /\ Tab(t, MountList(u))
    /\ ListUnchanged

\* select('genre'): the genre of every row, as often as it occurs
GenreColumn ==
    [g \in {books[b].genre : b \in DOMAIN books} |->
        Cardinality({b \in DOMAIN books : books[b].genre = g})]

\* Array.from(new Set(data.map((b) => b.genre))): every label once
uniqueGenres(data) == SetToBag(BagToSet(data))

\* fetchGenres, answered
FetchGenresDone(t) ==
    LET tab == sess[t] IN
    /\ tab.page = "books" /\ tab.pGenres
    /\ Tab(t, [tab EXCEPT !.pGenres = FALSE, !.genres = uniqueGenres(GenreColumn)])
    /\ ListUnchanged

\* fetchBooks, request i answered
FetchBooksDone(t, i) ==
    LET tab == sess[t] IN
    /\ tab.page = "books" /\ i \in 1..Len(tab.pList)
    /\ \E ans \in ListAnswers(tab.pList[i]) :
          LET rest == [tab EXCEPT
                          !.pList = SubSeq(@, 1, i - 1) \o SubSeq(@, i + 1, Len(@)),
                          !.loading = FALSE,
                          !.answered = tab.pList[i] @@
                              [err |-> ans.err,
                               matching |-> Cardinality(Matching(tab.pList[i].searchQuery,
                                                                 tab.pList[i].selectedGenre))]]
          IN
          IF ans.err # "none" THEN Tab(t, rest)
          ELSE Tab(t, [rest EXCEPT !.books = [k \in 1..Len(ans.data) |-> Row(books, ans.data[k])],
                                   !.totalBooks = ans.count])
    /\ ListUnchanged

\* the user acts while fewer than MaxInflight requests are unanswered
ListIdle(tab) == tab.page = "books" /\ Len(tab.pList) < MaxInflight

\* the search box: onChange setSearchQuery
SetSearchQuery(t, q) ==
    LET tab == sess[t] IN
    /\ ListIdle(tab)
    /\ q # tab.searchQuery
    /\ Tab(t, Changed(tab, [tab EXCEPT !.searchQuery = q]))
    /\ ListUnchanged

\* handleSearch: the Search button
HandleSearch(t) ==
    LET tab == sess[t] IN
    /\ ListIdle(tab)
    /\ Tab(t, Changed(tab, [tab EXCEPT !.currentPage = 1]))
    /\ ListUnchanged

\* the genre select: the genres fetched, or all
SelectGenre(t, g) ==
    LET tab == sess[t] IN
    /\ ListIdle(tab)
    /\ g \in BagToSet(tab.genres) \cup {""}
    /\ g # tab.selectedGenre
    /\ Tab(t, Changed(tab, [tab EXCEPT !.selectedGenre = g, !.currentPage = 1]))
    /\ ListUnchanged

\* the sort select
SelectSort(t, k) ==
    LET tab == sess[t] IN
    /\ ListIdle(tab)
    /\ k # tab.sortBy
    /\ Tab(t, Changed(tab, [tab EXCEPT !.sortBy = k, !.currentPage = 1]))
    /\ ListUnchanged

\* a page button
GoToPage(t, p) ==
    LET tab == sess[t] IN
    /\ ListIdle(tab) /\ PagerShown(tab)
    /\ p \in 1..totalPages(tab)
    /\ Tab(t, Changed(tab, [tab EXCEPT !.currentPage = p]))
    /\ ListUnchanged

\* the previous button: Math.max(1, p - 1)
PrevPage(t) ==
    LET tab == sess[t] IN
    /\ ListIdle(tab) /\ PagerShown(tab)
    /\ tab.currentPage # 1
    /\ Tab(t, Changed(tab, [tab EXCEPT !.currentPage = IF @ - 1 > 1 THEN @ - 1 ELSE 1]))
    /\ ListUnchanged

\* the next button: Math.min(totalPages, p + 1)
NextPage(t) ==
    LET tab == sess[t] IN
    /\ ListIdle(tab) /\ PagerShown(tab)
    /\ tab.currentPage # totalPages(tab)
    /\ Tab(t, Changed(tab, [tab EXCEPT !.currentPage = IF @ + 1 < totalPages(tab)
                                                       THEN @ + 1 ELSE totalPages(tab)]))
    /\ ListUnchanged

ListStep(t) ==
    \/ \E u \in Callers : OpenList(t, u)
    \/ FetchGenresDone(t)
    \/ \E i \in 1..MaxInflight : FetchBooksDone(t, i)
    \/ \E q \in SearchTexts : SetSearchQuery(t, q)
    \/ HandleSearch(t)
    \/ \E g \in {w.genre : w \in {Works[i] : i \in 1..3}} \cup {""} : SelectGenre(t, g)
    \/ \E k \in SortKeys : SelectSort(t, k)
    \/ \E p \in 1..((CatalogueSize + 3 + BOOKS_PER_PAGE - 1) \div BOOKS_PER_PAGE) : GoToPage(t, p)
    \/ PrevPage(t)
    \/ NextPage(t)

NextList == ListStep("t1")

\* one tab on the listing, over a store that no one changes
SpecList == InitList /\ [][NextList]_vars

\* The search box stays in the page while `loading` replaces the list, and
\* every keystroke changes searchQuery: the effect runs fetchBooks again while
\* up to MaxOverlap requests are unanswered.
MaxOverlap == 2

\* onChange setSearchQuery while earlier requests are in flight
SearchWhileLoading(t, q) ==
    LET tab == sess[t] IN
    /\ tab.page = "books"
    /\ Len(tab.pList) >= 1 /\ Len(tab.pList) < MaxOverlap
    /\ q # tab.searchQuery
    /\ Tab(t, Changed(tab, [tab EXCEPT !.searchQuery = q]))
    /\ ListUnchanged

NextOverlap ==
    \/ \E u \in Callers : OpenList("t1", u)
    \/ \E i \in 1..MaxOverlap : FetchBooksDone("t1", i)
    \/ \E q \in SearchTexts : SetSearchQuery("t1", q)
    \/ \E q \in SearchTexts : SearchWhileLoading("t1", q)

\* one tab on the listing, typing faster than the store answers
SpecOverlap == InitList /\ [][NextOverlap]_vars

----------------------------------------------------------------------------
(* The timestamps.  created_at and updated_at are ordinary columns with     *)
(* DEFAULT now(): a statement that names them sets them.  The only trigger  *)
(* is BEFORE UPDATE, on books and reviews.  Here the clock advances and the *)
(* requests may name the timestamp columns.                                 *)

MaxTime == 1

\* timestamps a client may submit: the epoch and a time yet to come
TimeInputs == {0, MaxTime + 7}

TheBook == [title |-> "Dune", author |-> "Frank Herbert", description |-> "sand",
            genre |-> "SciFi", published_year |-> 1965, added_by |-> 1]

TheReview == [book_id |-> 1, user_id |-> 2, rating |-> 5, review_text |-> "good"]

Timed(vals) ==
    {vals} \cup {vals @@ [created_at |-> c] : c \in TimeInputs}
           \cup {vals @@ [updated_at |-> c] : c \in TimeInputs}

TimedBookPatches ==
    {[title |-> "The Hobbit"]}
    \cup {[created_at |-> c] : c \in TimeInputs}
    \cup {[updated_at |-> c] : c \in TimeInputs}

TimedReviewPatches ==
    {[rating |-> 1]}
    \cup {[created_at |-> c] : c \in TimeInputs}
    \cup {[updated_at |-> c] : c \in TimeInputs}

InitTime ==
    /\ now = 0
    /\ users = {1, 2}
    /\ auth = <<[email |-> "ada@x.com", name |-> Null], [email |-> "bob@x.com", name |-> Null]>>
    /\ profiles = <<handle_new_user(1, Null, "ada@x.com"), handle_new_user(2, Null, "bob@x.com")>>
    /\ books = << >>
    /\ reviews = << >>
    /\ nextUser = 3
    /\ nextBook = 1
    /\ nextReview = 1
    /\ last = NoRequest
    /\ sess = << >>

\* time passes on the server
Tick ==
    /\ now < MaxTime
    /\ now' = now + 1
    /\ UNCHANGED <<users, auth, profiles, books, reviews, nextUser, nextBook, nextReview,
                   last, sess>>

NextTime ==
    \/ Tick
    \/ \E uid \in users, vals \in Timed(TheBook) : ApiInsertBook(uid, vals)
    \/ \E uid \in users, id \in BookIds, patch \in TimedBookPatches :
          ApiUpdateBook(uid, id, patch)
    \/ \E uid \in users, vals \in Timed(TheReview) : ApiInsertReview(uid, vals)
    \/ \E uid \in users, id \in ReviewIds, patch \in TimedReviewPatches :
          ApiUpdateReview(uid, id, patch)

SpecTime == InitTime /\ [][NextTime]_vars

----------------------------------------------------------------------------
(* The listing stays open while other clients change the Books. *)

NextLive ==
    \/ \E u \in Callers : OpenList("t1", u)
    \/ FetchGenresDone("t1")
    \/ \E i \in 1..MaxInflight : FetchBooksDone("t1", i)
    \/ \E g \in {f.genre : f \in BookForms} \cup {""} : SelectGenre("t1", g)
    \/ \E uid \in users, f \in BookForms : ApiInsertBook(uid, f @@ [added_by |-> uid])
    \/ \E uid \in users, id \in BookIds, patch \in BookForms : ApiUpdateBook(uid, id, patch)
    \/ \E uid \in users, id \in BookIds : ApiDeleteBook(uid, id)

SpecLive == InitUI /\ [][NextLive]_vars

----------------------------------------------------------------------------
(* Two tabs on BookFormPage while time passes. *)

NextEdit ==
    \/ Tick
    \/ \E t \in Tabs : FormStep(t)

SpecEdit == InitUI /\ [][NextEdit]_vars

----------------------------------------------------------------------------
(* Claims checked under Spec *)

ConstraintViolation == {"check", "unique"}

BookTouched(b) == b \notin DOMAIN books' \/ books'[b] # books[b]

ReviewTouched(r) == r \notin DOMAIN reviews' \/ reviews'[r] # reviews[r]

\* C1: a Book is changed or removed only by an update or delete of that Book
\* issued by its owner; a request of any other caller, signed in or not,
\* leaves it as it was.
C1_OnlyOwnerChangesBook ==
    [][\A b \in DOMAIN books :
          BookTouched(b) =>
              /\ last'.op \in {"updateBook", "deleteBook"}
              /\ last'.id = b
              /\ last'.uid = books[b].added_by]_vars

\* a signed-in caller who is not the owner has just sent an update of an existing Book
C1_Witness ==
    /\ last.op = "updateBook"
    /\ last.id \in DOMAIN books
    /\ last.uid # Anon
    /\ last.uid # books[last.id].added_by

\* C3: at most one Review per (book, author); a second create for the same
\* pair fails with a constraint violation and changes nothing, and another
\* author's create for the same Book is not blocked by it.
C3_OneReviewPerBookAndAuthor ==
    /\ \A r1, r2 \in DOMAIN reviews :
          r1 # r2 => ~(/\ reviews[r1].book_id = reviews[r2].book_id
                       /\ reviews[r1].user_id = reviews[r2].user_id)
    /\ \A r \in DOMAIN reviews, vals \in ReviewInserts :
          (vals.book_id = reviews[r].book_id /\ vals.user_id = reviews[r].user_id) =>
              LET res == InsertReview(vals.user_id, vals) IN
              /\ res.err \in ConstraintViolation
              /\ RatingCheck(vals.rating) => res.err = "unique"
              /\ res.reviews = reviews
    /\ \A r \in DOMAIN reviews, vals \in ReviewInserts :
          (/\ vals.book_id = reviews[r].book_id
           /\ vals.user_id \in users
           /\ RatingCheck(vals.rating)
           /\ \A q \in DOMAIN reviews :
                 ~(reviews[q].book_id = vals.book_id /\ reviews[q].user_id = vals.user_id)) =>
              LET res == InsertReview(vals.user_id, vals) IN
              /\ res.err = "none"
              /\ res.reviews = Put(reviews, nextReview, ApplyPatch(ReviewDefaults, vals))
    /\ (last.op = "insertReview" /\ last.err = "unique") =>
          \E r \in DOMAIN reviews : reviews[r].user_id = last.uid

\* a second create for a pair that has a Review was just refused, while two
\* authors hold a Review of the same Book
C3_Witness ==
    /\ last.op = "insertReview"
    /\ last.err = "unique"
    /\ \E r1, r2 \in DOMAIN reviews :
          /\ reviews[r1].book_id = reviews[r2].book_id
          /\ reviews[r1].user_id # reviews[r2].user_id

\* C6: every stored Review references an existing Book and an existing
\* Profile: deleting a Book removes its Reviews in the same step.
C6_ReviewsReferenceExistingRows ==
    \A r \in DOMAIN reviews :
        reviews[r].book_id \in DOMAIN books /\ reviews[r].user_id \in DOMAIN profiles

\* a Book was just deleted, a Review created earlier is gone and the Review
\* of the other Book is still there
C6_Witness ==
    /\ last.op = "deleteBook"
    /\ last.n = 1
    /\ nextReview > MaxReviews
    /\ Cardinality(DOMAIN reviews) = MaxReviews - 1

\* C7: a Review is changed or removed only by an update or delete of that
\* Review issued by its author, or removed by the cascade of its Book's delete.
C7_OnlyAuthorChangesReview ==
    [][\A r \in DOMAIN reviews :
          ReviewTouched(r) =>
              \/ /\ last'.op \in {"updateReview", "deleteReview"}
                 /\ last'.id = r
                 /\ last'.uid = reviews[r].user_id
              \/ /\ last'.op = "deleteBook"
                 /\ last'.id = reviews[r].book_id
                 /\ r \notin DOMAIN reviews']_vars

\* a signed-in caller who is not the author has just sent a delete of an existing Review
C7_Witness ==
    /\ last.op = "deleteReview"
    /\ last.id \in DOMAIN reviews
    /\ last.uid # Anon
    /\ last.uid # reviews[last.id].user_id

\* C9: a Book or Review enters the store only through a create issued by a
\* signed-in caller whose identity is the row's owner/author reference, and
\* that reference stays what it was at creation.
C9_CreatorIsOwner ==
    [][/\ \A b \in DOMAIN books' :
             IF b \in DOMAIN books
             THEN books'[b].added_by = books[b].added_by
             ELSE /\ last'.op = "insertBook"
                  /\ last'.uid \in users
                  /\ books'[b].added_by = last'.uid
       /\ \A r \in DOMAIN reviews' :
             IF r \in DOMAIN reviews
             THEN reviews'[r].user_id = reviews[r].user_id
             ELSE /\ last'.op = "insertReview"
                  /\ last'.uid \in users
                  /\ reviews'[r].user_id = last'.uid
       /\ (last'.op \in {"insertBook", "insertReview"} /\ last'.uid = Anon) =>
             (last'.err = "rls" /\ books' = books /\ reviews' = reviews)]_vars

\* a signed-in caller's create of a Review naming another author was just refused
C9_Witness ==
    /\ last.op = "insertReview"
    /\ last.err = "rls"
    /\ last.uid \in users

\* C10: the owner reference of a Book never changes, whoever sends the update
\* and whatever owner reference it submits.
C10_OwnerNeverChanges ==
    [][\A b \in DOMAIN books \cap DOMAIN books' :
          books'[b].added_by = books[b].added_by]_vars

\* the owner's update submitting another owner reference was just refused
C10_Witness ==
    /\ last.op = "updateBook"
    /\ last.err = "rls"
    /\ last.id \in DOMAIN books
    /\ last.uid = books[last.id].added_by

----------------------------------------------------------------------------
(* Claims checked under SpecUI and SpecRace *)

\* C2: an update or delete of a Book by a caller who is not its owner is
\* answered with an Unauthorized error that the page shows: the tab does not
\* end on the Book's page or the listing as after a success.
C2_NonOwnerMutationReportsUnauthorized ==
    \A t \in Tabs :
        LET tab == sess[t] IN
        (/\ tab.done.op \in {"updateBook", "deleteBook"}
         /\ tab.done.id \in DOMAIN books
         /\ books[tab.done.id].added_by # tab.user) =>
            /\ tab.done.err = "rls"
            /\ tab.page = "form"
            /\ tab.error # ""

RatingProbes == 0..6

\* C5: every stored rating is in 1..5: a create or an update of a Review
\* succeeds exactly when its rating is, a rating of 0 or 6 is refused with the
\* table unchanged, and the rating the details page holds or has submitted is
\* in 1..5.
C5_RatingsInRange ==
    /\ \A r \in DOMAIN reviews : reviews[r].rating \in 1..5
    /\ \A t \in Tabs :
          /\ sess[t].rating \in 1..5
          /\ sess[t].pSubmit # NoReq => sess[t].pSubmit.rating \in 1..5
    /\ \A u \in users, b \in DOMAIN books, k \in RatingProbes :
          (\A r \in DOMAIN reviews : ~(reviews[r].book_id = b /\ reviews[r].user_id = u)) =>
              LET res == InsertReview(u, [book_id |-> b, user_id |-> u,
                                          rating |-> k, review_text |-> "good"])
              IN  /\ res.err = "none" <=> k \in 1..5
                  /\ k \notin 1..5 => (res.err = "check" /\ res.reviews = reviews)
    /\ \A r \in DOMAIN reviews, k \in RatingProbes :
          LET res == UpdateReview(reviews[r].user_id, r,
                                  [rating |-> k, review_text |-> "good"])
          IN  /\ res.err = "none" <=> k \in 1..5
              /\ k \notin 1..5 => (res.err = "check" /\ res.reviews = reviews)

\* after a star click and a submit the tab's user holds a Review rated 1, and
\* the tab has reloaded it and chosen edit
C5_Witness ==
    \E t \in Tabs :
        /\ sess[t].done.op = "insertReview" /\ sess[t].done.n = 1
        /\ sess[t].editingReview \in DOMAIN reviews
        /\ reviews[sess[t].editingReview].rating = 1
        /\ sess[t].rating = 1

\* C8: once a signed-in user chooses edit on their own Review, the review form
\* is shown in edit mode (so that it can be submitted to update the Review).
C8_EditShowsForm ==
    \A t \in Tabs :
        LET tab == sess[t] IN
        (/\ Rendered(tab)
         /\ tab.editingReview # 0
         /\ \E i \in 1..Len(tab.reviews) :
               /\ tab.reviews[i].id = tab.editingReview
               /\ tab.reviews[i].user_id = tab.user) =>
            FormShown(tab)

----------------------------------------------------------------------------
(* Claims checked under SpecProfiles *)

\* C11: a Profile is updated only by the caller whose identity is its id, and
\* an update changes the display name only: the email of every Profile is the
\* one it was created with (the one the identity registered).
C11_OnlyNameChanges ==
    /\ (last.op = "updateProfile" /\ last.n = 1) => last.uid = last.id
    /\ \A p \in DOMAIN profiles : profiles[p].email = auth[p].email

\* C12: every registered identity has its Profile and no Profile is without
\* its identity; a registration creates the Profile with the registered email
\* and name ("User" when no name was given) or creates nothing; a client
\* insert or delete on profiles changes no row.
C12_OneProfilePerIdentity ==
    /\ DOMAIN profiles = users
    /\ DOMAIN auth = users
    /\ users = 1..(nextUser - 1)
    /\ (last.op = "signUp" /\ last.err = "none") =>
          /\ last.id = nextUser - 1
          /\ profiles[last.id].email = auth[last.id].email
          /\ profiles[last.id].name =
                (IF auth[last.id].name = Null THEN "User" ELSE auth[last.id].name)
    /\ (last.op = "signUp" /\ last.err # "none") => last.n = 0
    /\ last.op \in {"insertProfile", "deleteProfile"} => last.n = 0

\* the second identity registered as Ada, the first without a name; a
\* registration with a taken address was refused in between
C12_Witness ==
    /\ last.op = "signUp" /\ last.err = "none" /\ last.id = 2
    /\ profiles[1].name = "User"
    /\ profiles[2].name = "Ada"
    /\ profiles[2].email = "bob@x.com"

----------------------------------------------------------------------------
(* Claims checked under SpecRead *)

\* the sum of the ratings, counted star by star
RatingTotal(rs) ==
    LET count(k) == Cardinality({i \in 1..Len(rs) : rs[i].rating = k})
    IN  count(1) + 2 * count(2) + 3 * count(3) + 4 * count(4) + 5 * count(5)

\* C13: the average rating of the details page is the sum of the loaded
\* ratings divided by their number, and 0 when no Review is loaded; with a
\* Review loaded it lies between 1 and 5; it is shown to the nearest tenth,
\* ratings 5, 3 and 4 as 4.0.
C13_AverageIsMean ==
    \A t \in Tabs :
        LET tab == sess[t]
            n == Len(tab.reviews)
            q == averageRating(tab)
        IN
        /\ n = 0 => q.num = 0 /\ toFixed1(q) = 0
        /\ n > 0 =>
              /\ q.num * n = RatingTotal(tab.reviews) * q.den
              /\ q.den <= q.num /\ q.num <= 5 * q.den
              /\ 2 * (10 * q.num - toFixed1(q) * q.den) <= q.den
              /\ 2 * (toFixed1(q) * q.den - 10 * q.num) <= q.den
        /\ (n = 3 /\ {tab.reviews[i].rating : i \in 1..n} = {3, 4, 5}) =>
              toFixed1(q) = 40 /\ FilledStars(q) = 4

\* the page has loaded three Reviews rated 5, 3 and 4 in some order
C13_Witness ==
    /\ Rendered(sess["t1"])
    /\ Len(sess["t1"].reviews) = 3
    /\ {sess["t1"].reviews[i].rating : i \in 1..3} = {3, 4, 5}
    /\ toFixed1(averageRating(sess["t1"])) = 40

\* C18: once fetchBookDetails is answered the page no longer loads; for an id
\* that does not exist it renders 'Book not found' with no error, for one that
\* exists it holds the Book, and once fetchReviews is answered too it holds
\* all Reviews of the Book, newest first.
C18_NotFoundOrLoaded ==
    \A t \in Tabs :
        LET tab == sess[t] IN
        (tab.page = "details" /\ ~tab.pBook) =>
            /\ ~tab.loading
            /\ tab.error = ""
            /\ tab.id \notin DOMAIN books =>
                  /\ View(tab) = "Book not found"
                  /\ tab.pReviews = 0 => tab.reviews = << >>
            /\ tab.id \in DOMAIN books =>
                  /\ View(tab) = "book"
                  /\ tab.book = Row(books, tab.id)
                  /\ tab.pReviews = 0 =>
                        /\ {tab.reviews[i].id : i \in 1..Len(tab.reviews)}
                              = {r \in DOMAIN reviews : reviews[r].book_id = tab.id}
                        /\ Len(tab.reviews) =
                              Cardinality({r \in DOMAIN reviews : reviews[r].book_id = tab.id})
                        /\ \A i \in 1..Len(tab.reviews) :
                              tab.reviews[i] = Row(reviews, tab.reviews[i].id)
                        /\ \A i, j \in 1..Len(tab.reviews) :
                              i < j => tab.reviews[i].created_at >= tab.reviews[j].created_at

\* the page of a Book that does not exist shows 'Book not found'
C18_Witness ==
    /\ sess["t1"].page = "details"
    /\ sess["t1"].id \notin DOMAIN books
    /\ ~sess["t1"].pBook /\ sess["t1"].pReviews = 0
    /\ View(sess["t1"]) = "Book not found"

----------------------------------------------------------------------------
(* Claims checked under SpecList.  tab.answered is the last fetchBooks      *)
(* request that was answered, with the error (if any) and the number of     *)
(* Books its filters match.                                                 *)

Listed(tab) == tab.page = "books" /\ tab.answered.currentPage >= 1

\* the offset of the request's page and the size of the slice it is due
Offset(req) == (req.currentPage - 1) * BOOKS_PER_PAGE
SliceSize(req) ==
    LET upto == IF req.currentPage * BOOKS_PER_PAGE < req.matching
                THEN req.currentPage * BOOKS_PER_PAGE ELSE req.matching
    IN  IF upto > Offset(req) THEN upto - Offset(req) ELSE 0

\* C14: for every page number p and n matching Books the listing delivers the
\* Books at positions (p-1)*5 .. min(p*5, n)-1 of the filtered, sorted
\* sequence, at most 5, and the total n whatever p is; of 12 Books page 3
\* holds 2.
C14_PageIsSlice ==
    \A t \in Tabs :
        LET tab == sess[t]
            req == tab.answered
        IN
        Listed(tab) =>
            /\ req.err = "none"
            /\ tab.totalBooks = req.matching
            /\ Len(tab.books) = SliceSize(req)
            /\ Len(tab.books) <= BOOKS_PER_PAGE
            /\ \E o \in Orders(Matching(req.searchQuery, req.selectedGenre), req.sortBy) :
                  \A k \in 1..Len(tab.books) : tab.books[k].id = o[Offset(req) + k]
            /\ (req.matching = 12 /\ req.currentPage = 3) => Len(tab.books) = 2

\* C15: a request for a page beyond the last one is answered without error,
\* with no Books and the number of matching Books: the page then lists nothing
\* and its total is that number.
C15_BeyondLastIsEmpty ==
    \A t \in Tabs :
        LET tab == sess[t]
            req == tab.answered
        IN
        (Listed(tab) /\ Offset(req) >= req.matching) =>
            /\ req.err = "none"
            /\ tab.books = << >>
            /\ tab.totalBooks = req.matching

\* the order of the rows S by the sort key, rows with equal keys by id ascending
RECURSIVE ByKeyThenId(_, _)
ByKeyThenId(S, sortBy) ==
    IF S = {} THEN << >>
    ELSE LET first == {x \in S : \A y \in S : Before(x, y, sortBy)}
             b == CHOOSE x \in first : \A y \in first : x <= y
         IN  <<b>> \o ByKeyThenId(S \ {b}, sortBy)

\* C16: the listing order is one total order, by the sort key and then by id
\* ascending: every page is the slice of that order, so the pages partition
\* the matching Books also when Books share a timestamp or a year.
C16_OrderIsTotal ==
    \A t \in Tabs :
        LET tab == sess[t]
            req == tab.answered
            o == ByKeyThenId(Matching(req.searchQuery, req.selectedGenre), req.sortBy)
        IN
        (Listed(tab) /\ req.err = "none") =>
            \A k \in 1..Len(tab.books) : tab.books[k].id = o[Offset(req) + k]

\* q occurs in str as a contiguous run of characters, letter case ignored
Contains(str, q) ==
    \E i \in 1..(Len(str) - Len(q) + 1) :
        \A k \in 1..Len(q) : Lower(str[i + k - 1]) = Lower(q[k])

\* C17: with a search text q the listing holds exactly the Books whose title
\* or author contains q, letter case ignored (and whose genre is the selected
\* one): "tolk" finds "The Hobbit" by "J.R.R. Tolkien" and not "Dune".
C17_SearchIsSubstring ==
    \A t \in Tabs :
        LET tab == sess[t]
            req == tab.answered
            found == {b \in DOMAIN books :
                         /\ \/ Contains(Chars[books[b].title], Chars[req.searchQuery])
                            \/ Contains(Chars[books[b].author], Chars[req.searchQuery])
                         /\ req.selectedGenre # "" => books[b].genre = req.selectedGenre}
        IN
        (Listed(tab) /\ req.err = "none" /\ req.searchQuery # "") =>
            /\ tab.totalBooks = Cardinality(found)
            /\ \A k \in 1..Len(tab.books) : tab.books[k].id \in found

----------------------------------------------------------------------------
(* Claims checked under SpecTime *)

\* C19: the created_at of a Book or Review is the server's time at its
\* creation, whatever the create submitted, and no update changes it.
C19_CreatedAtIsSetOnce ==
    [][/\ \A b \in DOMAIN books' :
             books'[b].created_at = IF b \in DOMAIN books THEN books[b].created_at ELSE now
       /\ \A r \in DOMAIN reviews' :
             reviews'[r].created_at = IF r \in DOMAIN reviews THEN reviews[r].created_at
                                      ELSE now]_vars

\* C20: an update of a Book or Review that succeeds sets updated_at to the
\* time of the update, whichever columns it names and whatever updated_at it
\* submits; so no row's updated_at is earlier than its created_at, and it
\* never decreases.
C20_UpdatedAtIsTimeOfUpdate ==
    [][/\ \A b \in DOMAIN books' :
             /\ books'[b].updated_at >= books'[b].created_at
             /\ b \in DOMAIN books =>
                   /\ books'[b].updated_at >= books[b].updated_at
                   /\ (last'.op = "updateBook" /\ last'.id = b /\ last'.n = 1 /\ now' = now)
                         => books'[b].updated_at = now
       /\ \A r \in DOMAIN reviews' :
             /\ reviews'[r].updated_at >= reviews'[r].created_at
             /\ r \in DOMAIN reviews =>
                   /\ reviews'[r].updated_at >= reviews[r].updated_at
                   /\ (last'.op = "updateReview" /\ last'.id = r /\ last'.n = 1 /\ now' = now)
                         => reviews'[r].updated_at = now]_vars

----------------------------------------------------------------------------
(* Claims checked under SpecLive *)

\* C21: the genre options of the listing are the distinct genres of the Books
\* that exist: no label twice, every label the genre of a Book, every genre of
\* a Book a label, also after Books were created, changed or deleted while the
\* page is open.
C21_GenresAreCurrent ==
    \A t \in Tabs :
        LET tab == sess[t] IN
        (tab.page = "books" /\ ~tab.pGenres) =>
            /\ \A g \in BagToSet(tab.genres) : CopiesIn(g, tab.genres) = 1
            /\ BagToSet(tab.genres) = {books[b].genre : b \in DOMAIN books}

----------------------------------------------------------------------------
(* Claims checked under SpecEdit *)

\* C22: an update of a Book that its owner submits from the form succeeds
\* whatever another session has written since the form was loaded, and leaves
\* the Book with exactly the submitted title, author, description, genre and
\* year and with the time of this update as updated_at: of two such updates
\* the one that commits last decides all five fields.
C22_LastWriterWins ==
    [][\A t \in Tabs :
          LET tab == sess[t]
              req == tab.pForm
          IN
          (/\ req # NoReq /\ sess'[t].pForm = NoReq
           /\ tab.id \in DOMAIN books
           /\ books[tab.id].added_by = tab.user) =>
              /\ sess'[t].done.op = "updateBook"
              /\ sess'[t].done.err = "none" /\ sess'[t].done.n = 1
              /\ \A c \in FormCols : books'[tab.id][c] = req.data[c]
              /\ books'[tab.id].updated_at = now
              /\ books'[tab.id].created_at = books[tab.id].created_at
              /\ books'[tab.id].added_by = books[tab.id].added_by]_vars

\* the owner saved "The Hobbit" from one tab and then, later, "Dune" from the
\* other: the Book is "Dune" again, updated at the later time
C22_Witness ==
    /\ sess["t1"].user = 1 /\ sess["t2"].user = 1
    /\ sess["t1"].done = [op |-> "updateBook", id |-> 1, err |-> "none", n |-> 1]
    /\ sess["t2"].done = [op |-> "updateBook", id |-> 1, err |-> "none", n |-> 1]
    /\ sess["t1"].formData.title = "The Hobbit"
    /\ sess["t2"].formData.title = "Dune"
    /\ 1 \in DOMAIN books
    /\ \A c \in FormCols : books[1][c] = sess["t2"].formData[c]
    /\ books[1].updated_at = 1
    /\ books[1].created_at = 0

----------------------------------------------------------------------------
(* Claims checked under SpecUI: the review form's edit mode *)

\* C23: whenever editingReview is set it is the id of a stored Review written
\* by the signed-in user for the displayed Book, and a submission in edit mode
\* that is answered without error has modified that Review (so the submitted
\* text is stored, or an error is shown).
C23_EditingReviewExists ==
    \A t \in Tabs :
        LET tab == sess[t] IN
        tab.page = "details" =>
            /\ tab.editingReview # 0 =>
                  /\ tab.editingReview \in DOMAIN reviews
                  /\ reviews[tab.editingReview].user_id = tab.user
                  /\ reviews[tab.editingReview].book_id = tab.id
            /\ (tab.done.op = "updateReview" /\ tab.done.err = "none") =>
                  tab.done.n = 1

----------------------------------------------------------------------------
(* Claims checked under SpecList and SpecOverlap: the listing's state once  *)
(* its requests are answered                                                *)

\* C24: once the last listing request is answered the current page p is
\* between 1 and max(1, ceil(total / 5)), and the empty 'No books found' view
\* is shown only when no Book matches the current filters.
C24_PageWithinRange ==
    \A t \in Tabs :
        LET tab == sess[t] IN
        (Listed(tab) /\ tab.pList = << >>) =>
            /\ 1 <= tab.currentPage
            /\ tab.currentPage <= (IF totalPages(tab) > 1 THEN totalPages(tab) ELSE 1)
            /\ (~tab.loading /\ Len(tab.books) = 0) =>
                  Matching(tab.searchQuery, tab.selectedGenre) = {}

\* C25: once every listing request is answered, in whatever order, the page
\* shows the Books and the total of the request issued last, that of the
\* current page, search text, genre and sort; and loading is false only when
\* no request is in flight.
C25_LastRequestWins ==
    \A t \in Tabs :
        LET tab == sess[t]
            hits == Matching(tab.searchQuery, tab.selectedGenre)
            due == ListRequest(tab) @@ [matching |-> Cardinality(hits)]
        IN
        tab.page = "books" =>
            /\ (Listed(tab) /\ tab.pList = << >>) =>
                  /\ tab.totalBooks = Cardinality(hits)
                  /\ Len(tab.books) = SliceSize(due)
                  /\ \A k \in 1..Len(tab.books) : tab.books[k].id \in hits
            /\ ~tab.loading => tab.pList = << >>

----------------------------------------------------------------------------
(* Claims checked under SpecUI: the outcome of a review submission *)

\* C26: a review submission that fails leaves the entered rating, the text and
\* the edit mode as they are, shows an error message with the form and changes
\* no stored Review; one that succeeds resets the form to rating 5, empty text
\* and non-edit mode, leaves the error cleared and reloads the Book's reviews.
C26_SubmitOutcome ==
    [][\A t \in Tabs :
          LET tab == sess[t]
              new == sess'[t]
          IN
          (tab.page = "details" /\ tab.pSubmit # NoReq /\ new.pSubmit = NoReq) =>
              IF new.done.err # "none"
              THEN /\ new.rating = tab.rating
                   /\ new.reviewText = tab.reviewText
                   /\ new.editingReview = tab.editingReview
                   /\ new.error # "" /\ FormShown(new)
                   /\ reviews' = reviews
              ELSE /\ new.rating = 5
                   /\ new.reviewText = ""
                   /\ new.editingReview = 0
                   /\ new.error = ""
                   /\ new.pReviews >= 1]_vars

\* C27: on the details page submitting is true exactly while a review
\* submission is in flight: a submission sets it, the answer sets it back to
\* false whether the request succeeded or failed, and no submission starts
\* while it is true.
C27_SubmittingWhileInFlight ==
    [][\A t \in Tabs :
          LET tab == sess[t]
              new == sess'[t]
          IN
          /\ new.page = "details" => (new.submitting <=> new.pSubmit # NoReq)
          /\ (tab.page = "details" /\ new.pSubmit # NoReq /\ new.pSubmit # tab.pSubmit) =>
                ~tab.submitting /\ tab.pSubmit = NoReq
          /\ (tab.page = "details" /\ tab.pSubmit # NoReq /\ new.pSubmit = NoReq) =>
                /\ new.done.op \in {"insertReview", "updateReview"}
                /\ ~new.submitting]_vars

\* a submission was refused by the store: after the answer the page is not
\* submitting any more and holds the message
C27_Witness ==
    /\ sess["t1"].page = "details"
    /\ sess["t1"].done.op = "insertReview" /\ sess["t1"].done.err = "unique"
    /\ sess["t1"].error # ""
    /\ sess["t1"].pSubmit = NoReq
    /\ ~sess["t1"].submitting

====
